---- MODULE Spec2Model ----
(***************************************************************************)
(* Model of the telraam-analysis enrichment and availability pipeline.     *)
(*                                                                         *)
(*   src/src/availability.py           get_combinations, create_all_dates, *)
(*                                     DataAvailabilityMapper              *)
(*   src/src/enriched_data_handler.py  get_telraam_information,            *)
(*                                     EnrichedDataLoader                  *)
(*   src/src/external_data_fetcher.py  get_public_holidays, get_vacations  *)
(*   src/src/api_fetcher.py            divide_into_subperiods              *)
(*                                                                         *)
(* Timestamps are whole hours counted from an origin (the Telraam reports  *)
(* are per-hour); a day is HoursPerDay consecutive hours.  Uptime is       *)
(* counted in whole units so that sums and comparisons are exact.          *)
(* A segment_fullname is a number 1..MaxSeg, ordered as the strings are;   *)
(* NoSegment is the NaN a left join leaves for an unmatched sensor.        *)
(*                                                                         *)
(* Four specifications share the module:                                   *)
(*   Spec         a DataAvailabilityMapper built on some enriched table,   *)
(*                and the calls of its public methods;                     *)
(*   SpecLoader   an EnrichedDataLoader and its get_enriched_data() calls; *)
(*   SpecDates    create_all_dates applied to one set of arguments;        *)
(*   SpecPeriods  divide_into_subperiods applied to one set of arguments.  *)
(***************************************************************************)
EXTENDS Integers, Sequences, FiniteSets, TLC

VARIABLES
    enriched_data,        \* DataAvailabilityMapper.enriched_data (rows, in order)
    call,                 \* the last public method called on the mapper, with its arguments
    ret,                  \* what that call returned (a table: a sequence of rows)
    outcome,              \* "ok", or the exception the last call ended with
    raw_data,             \* EnrichedDataLoader.raw_data
    self_enriched_data,   \* EnrichedDataLoader.__enriched_data: [columns, rows]
    sensors_config,       \* config/sensors.yaml joined with config/segments.yaml, or absent
    public_holidays,      \* the table get_public_holidays() returns
    vacations,            \* the table get_vacations() returns (unsorted)
    calls,                \* number of get_enriched_data() calls made
    loader_outcome,       \* "ok", or the exception the last get_enriched_data() ended with
    stage_rows            \* per stage of the last call: rows received and rows returned

mapper_vars == <<enriched_data, call, ret, outcome>>
loader_vars == <<raw_data, self_enriched_data, sensors_config, public_holidays,
                 vacations, calls, loader_outcome, stage_rows>>
vars == <<mapper_vars, loader_vars>>

\* ---------------------------------------------------------------- bounds
MaxSeg == 3          \* distinct segment_fullnames
MaxDate == 2         \* timestamps are the hours 0..MaxDate
HoursPerDay == 2     \* hours in one calendar day of the model
MaxUptime == 1       \* uptime units of one hourly record: 1..MaxUptime
MaxThreshold == 1    \* uptime_threshold arguments: 0..MaxThreshold
MaxShuffled == 3     \* tables of up to MaxShuffled rows come in every row order
MaxRecords == 6      \* rows of the enriched table given to the mapper

MaxInstance == 2     \* sensor instance_ids: 1..MaxInstance
MaxRaw == 2          \* rows of the raw data
MaxSensorRows == 2   \* rows of the sensors table
MaxSensorSeg == 2    \* segments the sensors table names: 1..MaxSensorSeg
MaxVacations == 2    \* rows of the vacations table
MaxCalls == 2        \* get_enriched_data() calls on one loader
MaxDay == 4          \* days of the times given to divide_into_subperiods: 0..MaxDay
MaxSubperiod == 2    \* its subperiod argument, in days: 1..MaxSubperiod

NoSegment == 0       \* NaN segment_fullname (sensor matched no segment)
NaT == 0 - 1         \* NaN / NaT in a numeric or datetime column
NaN == "NaN"         \* NaN in a column of labels

Segments == 1..MaxSeg
Dates == 0..MaxDate
DayOf(date) == date \div HoursPerDay
HourOf(date) == date % HoursPerDay
Days == {DayOf(h) : h \in Dates}

\* ---------------------------------------------------------------- helpers
Range(s) == {s[i] : i \in DOMAIN s}

SetMax(S) == CHOOSE m \in S : \A x \in S : x <= m
SetMin(S) == CHOOSE m \in S : \A x \in S : m <= x

\* a table: its rows as an explicit sequence (each row evaluated once)
Table(rows) == rows \o <<>>

\* a row is a function from column names to values; a DataFrame is its
\* column names and its rows in order
Row(values) == values @@ <<>>
DataFrame(columns, rows) == [columns |-> columns, rows |-> Table(rows)]

RECURSIVE SumSeq(_)
SumSeq(s) == IF s = <<>> THEN 0 ELSE Head(s) + SumSeq(Tail(s))

\* Python's tuple order (lexicographic, a proper prefix first)
RECURSIVE TupleLess(_, _)
TupleLess(a, b) ==
    IF a = <<>> THEN b # <<>>
    ELSE IF b = <<>> THEN FALSE
    ELSE IF Head(a) # Head(b) THEN Head(a) < Head(b)
    ELSE TupleLess(Tail(a), Tail(b))

\* the elements of a set of integers, ascending
RECURSIVE SortedInts(_)
SortedInts(S) ==
    IF S = {} THEN <<>>
    ELSE LET m == SetMin(S) IN <<m>> \o SortedInts(S \ {m})

\* the elements of a set of tuples, ascending in Python's tuple order
RECURSIVE SortedTuples(_)
SortedTuples(S) ==
    IF S = {} THEN <<>>
    ELSE LET m == CHOOSE x \in S : \A y \in S : y = x \/ TupleLess(x, y)
         IN  <<m>> \o SortedTuples(S \ {m})

\* ---------------------------------------------------------------- get_combinations
\* itertools.combinations(names, r): the r-subsequences of names, in index order
RECURSIVE combinations(_, _)
combinations(names, r) ==
    IF r = 0 THEN << <<>> >>
    ELSE IF Len(names) < r THEN <<>>
    ELSE LET with == combinations(Tail(names), r - 1)
             without == combinations(Tail(names), r)
         IN  [i \in 1..Len(with) |-> <<Head(names)>> \o with[i]] \o without

RECURSIVE chain_from(_, _)
chain_from(names, r) ==
    IF r > Len(names) THEN <<>>
    ELSE combinations(names, r) \o chain_from(names, r + 1)

get_combinations_pairs_only(names) == combinations(names, 2)

get_combinations_whole_only(names) == IF Len(names) >= 2 THEN <<names>> ELSE <<>>

get_combinations(names) == chain_from(names, 2)

\* ---------------------------------------------------------------- create_all_dates
\* pd.date_range(start, end, freq="H"): every hour from start to end, both included
date_range(start_date, end_date) ==
    [i \in 1..(end_date - start_date + 1) |-> start_date + i - 1]

\* np.repeat(period, len(instances)) beside instances * len(period), then
\* the "hour" column: one row per (hour, instance), the instances in the
\* column that instances_name names
instances_hour(instances, instances_name, period) ==
    DataFrame({"date", instances_name, "hour"},
              [i \in 1..(Len(instances) * Len(period)) |->
                  Row([c \in {"date", instances_name, "hour"} |->
                          IF c = "hour" THEN HourOf(period[((i - 1) \div Len(instances)) + 1])
                          ELSE IF c = instances_name
                          THEN instances[((i - 1) % Len(instances)) + 1]
                          ELSE period[((i - 1) \div Len(instances)) + 1]])])

\* instances_hour["date"].dt.hour: with no row the "date" column is not a
\* datetime column, and the .dt accessor raises AttributeError
create_all_dates_raises(instances, start_date, end_date) ==
    instances = <<>> \/ end_date < start_date

create_all_dates(instances, instances_name, start_date, end_date) ==
    instances_hour(instances, instances_name, date_range(start_date, end_date))

\* ---------------------------------------------------------------- DataAvailabilityMapper.availability
\* the rows of one groupby key
group_rows(rows, segment, date) ==
    {r \in rows : r.segment_fullname = segment /\ r.date = date}

max_per_key(keyed) ==
    {[segment_fullname |-> r.segment_fullname, date |-> r.date,
      uptime |-> SetMax({q.uptime : q \in group_rows(keyed, r.segment_fullname, r.date)})]
        : r \in keyed}

\* enriched_data.groupby(["segment_fullname", "date"])["uptime"].max(): groupby
\* drops the rows whose key is NaN; one row per remaining key.
grouped_max(ed) == max_per_key({r \in Range(ed) : r.segment_fullname # NoSegment})

\* min(data["date"]) on an empty column raises ValueError
availability_raises(ed) == \A r \in Range(ed) : r.segment_fullname = NoSegment

\* set(data["segment_fullname"])
instance_set(ed) == {r.segment_fullname : r \in Range(ed)} \ {NoSegment}

orders_of(S) == {s \in [1..Cardinality(S) -> S] : Range(s) = S}

\* the orders list(set(data["segment_fullname"])) can come out in
instance_orders(ed) == orders_of(instance_set(ed))

\* the uptime the grouped data holds for a cell of the reference, NaN filled with 0
merged_uptime(matches) ==
    IF matches = {} THEN 0 ELSE (CHOOSE r \in matches : TRUE).uptime

\* dates_ref.merge(data, how="left"), fillna(0), the "day" column
merge_fill(dates_ref, data) ==
    Table([i \in 1..Len(dates_ref) |->
              [date |-> dates_ref[i].date,
               segment_fullname |-> dates_ref[i].segment_fullname,
               hour |-> dates_ref[i].hour,
               uptime |-> merged_uptime(group_rows(data, dates_ref[i].segment_fullname,
                                                   dates_ref[i].date)),
               day |-> DayOf(dates_ref[i].date)]])

grid_of(data, instances) ==
    merge_fill(create_all_dates(instances, "segment_fullname",
                                SetMin({r.date : r \in data}),
                                SetMax({r.date : r \in data})).rows,
               data)

availability_hour(ed, instances) == grid_of(grouped_max(ed), instances)

\* availability.groupby(["day", "segment_fullname"])["uptime"].sum().reset_index():
\* one row per key, the keys sorted
sum_rows(hourly, keys) ==
    Table([i \in 1..Len(keys) |->
              [day |-> keys[i][1], segment_fullname |-> keys[i][2],
               uptime |-> SumSeq([j \in DOMAIN hourly |->
                              IF hourly[j].day = keys[i][1]
                                 /\ hourly[j].segment_fullname = keys[i][2]
                              THEN hourly[j].uptime ELSE 0])]])

\* first occurrences, in order
RECURSIVE unique(_)
unique(s) ==
    IF s = <<>> THEN <<>>
    ELSE <<Head(s)>> \o unique(SelectSeq(Tail(s), LAMBDA x : x # Head(s)))

\* the mutant of day_sums: the keys in the order the grid first holds them
day_sums_unsorted(hourly) ==
    sum_rows(hourly, unique([i \in DOMAIN hourly |->
                                <<hourly[i].day, hourly[i].segment_fullname>>]))

day_sums(hourly) ==
    sum_rows(hourly, SortedTuples({<<r.day, r.segment_fullname>> : r \in Range(hourly)}))

\* the ascending order of the instances
sorted_instances(ed) == SortedInts(instance_set(ed))

availability_day(ed, instances) == day_sums(availability_hour(ed, instances))

\* ---------------------------------------------------------------- __available_segments_by_day
above_threshold_or_equal(uptime, uptime_threshold) == uptime >= uptime_threshold

\* segment_by_day["uptime"] > uptime_threshold
above_threshold(uptime, uptime_threshold) == uptime > uptime_threshold

filter_uptime(grid, uptime_threshold) ==
    SelectSeq(grid, LAMBDA r : above_threshold(r.uptime, uptime_threshold))

\* groupby("day")["segment_fullname"].agg(list) for one day: the day's
\* segments in the grid's order
segments_of_day(kept, day) ==
    [i \in 1..Len(SelectSeq(kept, LAMBDA r : r.day = day)) |->
        SelectSeq(kept, LAMBDA r : r.day = day)[i].segment_fullname]

day_rows(day, combs) ==
    [i \in 1..Len(combs) |-> [day |-> day, combinations |-> combs[i]]]

\* rows (day, combinations) after the explode, in order: the days ascending,
\* each day's combinations in get_combinations order
RECURSIVE explode(_, _)
explode(days, kept) ==
    IF days = <<>> THEN <<>>
    ELSE day_rows(Head(days), get_combinations(segments_of_day(kept, Head(days))))
         \o explode(Tail(days), kept)

explode_days(kept) == Table(explode(SortedInts({r.day : r \in Range(kept)}), kept))

\* instances: the order list(set(...)) took inside availability()
available_segments_by_day(ed, uptime_threshold, instances) ==
    explode_days(filter_uptime(availability_day(ed, instances), uptime_threshold))

\* ---------------------------------------------------------------- counter_combinations
\* groupby("combinations").size(): one row per distinct tuple, the tuples sorted
size_rows(segment_by_day, keys) ==
    Table([i \in 1..Len(keys) |->
              [combinations |-> keys[i],
               available_days |-> Cardinality({j \in DOMAIN segment_by_day :
                                      segment_by_day[j].combinations = keys[i]}),
               combination_length |-> Len(keys[i])]])

counter_of(segment_by_day) ==
    size_rows(segment_by_day, SortedTuples({r.combinations : r \in Range(segment_by_day)}))

counter_combinations(ed, uptime_threshold, instances) ==
    counter_of(available_segments_by_day(ed, uptime_threshold, instances))

\* ---------------------------------------------------------------- best_combinations
max_days(table, idx) == SetMax({table[i].available_days : i \in idx})

idxmax_last(table, idx) ==
    SetMax({i \in idx : table[i].available_days = max_days(table, idx)})

\* Series.idxmax(): the first index holding the maximum
idxmax(table, idx) ==
    SetMin({i \in idx : table[i].available_days = max_days(table, idx)})

\* combinations.loc[idx_max]: the groups in ascending combination_length
top_rows(table, lengths) ==
    Table([k \in 1..Len(lengths) |->
              table[idxmax(table, {i \in DOMAIN table :
                                      table[i].combination_length = lengths[k]})]])

best_of(table) ==
    top_rows(table, SortedInts({r.combination_length : r \in Range(table)}))

best_combinations(ed, uptime_threshold, instances) ==
    best_of(counter_combinations(ed, uptime_threshold, instances))

\* ---------------------------------------------------------------- best_combinations_details
\* top_combinations[top_combinations["combination_length"] == combination_length]
selected(top_combinations, combination_length) ==
    SelectSeq(top_combinations, LAMBDA r : r.combination_length = combination_length)

\* [...]["combinations"].values[0] on an empty selection raises IndexError
details_raises(top_combinations, combination_length) ==
    selected(top_combinations, combination_length) = <<>>

segments_list(top_combinations, combination_length) ==
    selected(top_combinations, combination_length)[1].combinations

\* segments_by_day[segments_by_day["combinations"] == segments_list]["day"].to_list()
days_of(rows) == [i \in 1..Len(rows) |-> rows[i].day]

days_list(segments_by_day, wanted) ==
    days_of(SelectSeq(segments_by_day, LAMBDA r : r.combinations = wanted))

\* enriched_data[segment_fullname.isin(segments_list) & day.isin(days_list)]
isin_both(ed, segments, days) ==
    SelectSeq(ed, LAMBDA r : r.segment_fullname \in segments /\ r.day \in days)

isin_segments_only(ed, segments, days) ==
    SelectSeq(ed, LAMBDA r : r.segment_fullname \in segments)

top_enriched_data_any_day(ed, wanted, days) == isin_segments_only(ed, Range(wanted), Range(days))

top_enriched_data(ed, wanted, days) == isin_both(ed, Range(wanted), Range(days))

\* the body of best_combinations_details, given what its two calls returned
details_of(ed, top_combinations, segments_by_day, combination_length) ==
    top_enriched_data(ed, segments_list(top_combinations, combination_length),
                      days_list(segments_by_day,
                                segments_list(top_combinations, combination_length)))

\* both calls build the same set in the same process, so list(set(...))
\* comes out in the same order in both
best_combinations_details(ed, combination_length, uptime_threshold, instances) ==
    details_of(ed, best_combinations(ed, uptime_threshold, instances),
               available_segments_by_day(ed, uptime_threshold, instances),
               combination_length)

\* ---------------------------------------------------------------- the mapper's inputs
\* the rows an enriched table can hold: a named segment with any uptime, or
\* a row of a sensor that matched no segment
RowTypes ==
    LET named == {<<s, d, u>> : s \in Segments, d \in Dates, u \in 1..MaxUptime}
        unnamed == {<<NoSegment, d, MaxUptime>> : d \in Dates}
    IN  SortedTuples(named \cup unnamed)

EnrichedRow(t) ==
    [segment_fullname |-> t[1], date |-> t[2], day |-> DayOf(t[2]), uptime |-> t[3]]

\* tables of at most n distinct rows, the rows taken in RowTypes order from index lo on
RECURSIVE TablesFrom(_, _)
TablesFrom(n, lo) ==
    IF n = 0 THEN {<<>>}
    ELSE {<<>>} \cup UNION {{<<EnrichedRow(RowTypes[i])>> \o t : t \in TablesFrom(n - 1, i + 1)}
                             : i \in lo..Len(RowTypes)}

\* the small tables, their distinct rows in every order
ShuffledTables ==
    {t \in UNION {[1..n -> {EnrichedRow(RowTypes[i]) : i \in DOMAIN RowTypes}] :
                     n \in 1..MaxShuffled} :
        \A i, j \in DOMAIN t : i # j => t[i] # t[j]}

EnrichedTables == (TablesFrom(MaxRecords, 1) \ {<<>>}) \cup ShuffledTables

NoCall == [op |-> "none", level_day |-> FALSE, uptime_threshold |-> 0, combination_length |-> 0]

LoaderIdle ==
    /\ raw_data = <<>>
    /\ self_enriched_data = [columns |-> {}, rows |-> <<>>]
    /\ sensors_config = <<>>
    /\ public_holidays = <<>>
    /\ vacations = <<>>
    /\ calls = 0
    /\ loader_outcome = "ok"
    /\ stage_rows = <<>>

\* DataAvailabilityMapper.__init__
Init ==
    /\ enriched_data \in EnrichedTables
    /\ call = NoCall
    /\ ret = <<>>
    /\ outcome = "ok"
    /\ LoaderIdle

\* ---------------------------------------------------------------- the mapper's public methods
\* No method assigns enriched_data, so what a call returns depends on the
\* table alone: a behaviour is the construction followed by one call.
Returns(c, raises, table) ==
    /\ call = NoCall
    /\ call' = c
    /\ outcome' = IF raises THEN "ValueError" ELSE "ok"
    /\ ret' = IF raises THEN <<>> ELSE table
    /\ UNCHANGED <<enriched_data, loader_vars>>

\* availability(level_day=False)
AvailabilityHour ==
    \/ /\ availability_raises(enriched_data)
       /\ Returns([NoCall EXCEPT !.op = "availability"], TRUE, <<>>)
    \/ /\ ~availability_raises(enriched_data)
       /\ \E instances \in instance_orders(enriched_data) :
              Returns([NoCall EXCEPT !.op = "availability"], FALSE,
                      availability_hour(enriched_data, instances))

\* availability(level_day=True)
AvailabilityDay ==
    \E instances \in instance_orders(enriched_data) :
        Returns([NoCall EXCEPT !.op = "availability", !.level_day = TRUE],
                availability_raises(enriched_data),
                availability_day(enriched_data, instances))

CounterCombinations ==
    \E t \in 0..MaxThreshold, instances \in instance_orders(enriched_data) :
        Returns([NoCall EXCEPT !.op = "counter_combinations", !.uptime_threshold = t],
                availability_raises(enriched_data),
                counter_combinations(enriched_data, t, instances))

BestCombinations ==
    \E t \in 0..MaxThreshold, instances \in instance_orders(enriched_data) :
        Returns([NoCall EXCEPT !.op = "best_combinations", !.uptime_threshold = t],
                availability_raises(enriched_data),
                best_combinations(enriched_data, t, instances))

\* how best_combinations_details ends, given what best_combinations returned
details_outcome(raises, top_combinations, combination_length) ==
    IF raises THEN "ValueError"
    ELSE IF details_raises(top_combinations, combination_length) THEN "IndexError"
    ELSE "ok"

DetailsReturns(t, k, top_combinations, segments_by_day) ==
    /\ call = NoCall
    /\ call' = [NoCall EXCEPT !.op = "best_combinations_details",
                              !.uptime_threshold = t, !.combination_length = k]
    /\ outcome' = details_outcome(availability_raises(enriched_data), top_combinations, k)
    /\ ret' = IF outcome' = "ok"
              THEN details_of(enriched_data, top_combinations, segments_by_day, k)
              ELSE <<>>
    /\ UNCHANGED <<enriched_data, loader_vars>>

BestCombinationsDetails ==
    \E t \in 0..MaxThreshold, k \in 2..(MaxSeg + 1),
       instances \in instance_orders(enriched_data) :
        DetailsReturns(t, k,
            IF availability_raises(enriched_data) THEN <<>>
            ELSE best_combinations(enriched_data, t, instances),
            IF availability_raises(enriched_data) THEN <<>>
            ELSE available_segments_by_day(enriched_data, t, instances))

Next ==
    \/ AvailabilityHour
    \/ AvailabilityDay
    \/ CounterCombinations
    \/ BestCombinations
    \/ BestCombinationsDetails

Spec == Init /\ [][Next]_vars

\* ================================================================ EnrichedDataLoader
\* A DataFrame is [columns |-> set of names, rows |-> sequence of rows]; a
\* row is a function from the column names to values.  The columns kept are
\* the ones some later step reads: instance_id, date, uptime of the raw
\* data; day and hour of the calendar fields.  Dates are local hours, so
\* to_datetime/tz_convert leave them as they are.

Ok(df, stages) == [error |-> "ok", df |-> df, stages |-> stages]
Raised(error, df, stages) == [error |-> error, df |-> df, stages |-> stages]

StageRows(stage, df_in, df_out) ==
    [stage |-> stage, rows_in |-> Len(df_in.rows), rows_out |-> Len(df_out.rows)]

\* the NaN a merge leaves in a column of the right table
NaNOf(column) ==
    IF column \in {"public_holiday", "vacation"} THEN NaN
    ELSE IF column = "segment_fullname" THEN NoSegment
    ELSE NaT

\* ---------------------------------------------------------------- __enrich_dates
\* data_dates["day"] = ..., data_dates["hour"] = ...: the columns are added,
\* or overwritten when they are there already
with_dates(row, columns) ==
    Row([c \in columns \cup {"day", "hour"} |->
            IF c = "day" THEN DayOf(row.date)
            ELSE IF c = "hour" THEN HourOf(row.date)
            ELSE row[c]])

enrich_dates(df) ==
    DataFrame(df.columns \cup {"day", "hour"},
              [i \in DOMAIN df.rows |-> with_dates(df.rows[i], df.columns)])

\* ---------------------------------------------------------------- DataFrame.merge
\* the columns both tables hold besides the key get the suffixes _x and _y
overlap(left_columns, right_columns, key) == (left_columns \cap right_columns) \ {key}

left_name(c, common) == IF c \in common THEN c \o "_x" ELSE c
right_name(c, common) == IF c \in common THEN c \o "_y" ELSE c

merged_left(left_columns, common) == {left_name(c, common) : c \in left_columns}
merged_right(right_columns, common, key) ==
    {right_name(c, common) : c \in right_columns \ {key}}

\* a suffixed name that is there already: MergeError
collides(left_names, right_names, left_columns) ==
    \/ Cardinality(left_names) # Cardinality(left_columns)
    \/ left_names \cap right_names # {}

merge_collides(left_columns, right_columns, key) ==
    collides(merged_left(left_columns, overlap(left_columns, right_columns, key)),
             merged_right(right_columns, overlap(left_columns, right_columns, key), key),
             left_columns)

\* where each column of the result comes from: the left or the right
\* table, and under which name there
origin(n, left_names, left_columns, right_columns, common) ==
    IF n \in left_names
    THEN [left |-> TRUE, column |-> CHOOSE c \in left_columns : left_name(c, common) = n]
    ELSE [left |-> FALSE, column |-> CHOOSE c \in right_columns : right_name(c, common) = n]

origins(left_names, right_names, left_columns, right_columns, common) ==
    Row([n \in left_names \cup right_names |->
            origin(n, left_names, left_columns, right_columns, common)])

merge_plan(left_columns, right_columns, common, key) ==
    origins(merged_left(left_columns, common), merged_right(right_columns, common, key),
            left_columns, right_columns, common)

\* one row of the result: the left row beside the matching right row, or
\* beside NaN when match is <<>>
joined_row(l, match, plan) ==
    Row([n \in DOMAIN plan |->
            IF plan[n].left THEN l[plan[n].column]
            ELSE IF match = <<>> THEN NaNOf(plan[n].column)
            ELSE match[1][plan[n].column]])

\* the rows a left row gives: one per matching right row, in the right
\* table's order; one row of NaN when nothing matches
rows_for(l, matches, plan) ==
    IF matches = <<>>
    THEN <<joined_row(l, <<>>, plan)>>
    ELSE [j \in DOMAIN matches |-> joined_row(l, <<matches[j]>>, plan)]

RECURSIVE merge_rows(_, _, _, _)
merge_rows(left_rows, right_rows, plan, key) ==
    IF left_rows = <<>> THEN <<>>
    ELSE rows_for(Head(left_rows),
                  SelectSeq(right_rows, LAMBDA r : r[key] = Head(left_rows)[key]),
                  plan)
         \o merge_rows(Tail(left_rows), right_rows, plan, key)

planned_merge(left, right, plan, key) ==
    DataFrame(DOMAIN plan, merge_rows(left.rows, right.rows, plan, key))

\* left.merge(right, on=key, how="left")
merge_left(left, right, key) ==
    planned_merge(left, right,
                  merge_plan(left.columns, right.columns,
                             overlap(left.columns, right.columns, key), key),
                  key)

\* ---------------------------------------------------------------- __enrich_sensors
\* sensors[["instance_id", "segment_id", "segment_fullname"]]: KeyError on
\* the empty DataFrame get_telraam_information() returns without its files
sensors_raises(sensors) == ~({"instance_id", "segment_fullname"} \subseteq sensors.columns)

sensors_columns(sensors) ==
    DataFrame({"instance_id", "segment_fullname"},
              [i \in DOMAIN sensors.rows |->
                  Row([c \in {"instance_id", "segment_fullname"} |-> sensors.rows[i][c]])])

enrich_sensors(df, sensors) == merge_left(df, sensors_columns(sensors), "instance_id")

\* ---------------------------------------------------------------- __enrich_special_events
\* the mutant of fillna_row: only the flag is filled
fillna_row_flag_only(row, columns) ==
    Row([c \in columns |->
            IF c = "public_holiday_flag" /\ row[c] = NaT THEN 0 ELSE row[c]])

fillna_row(row, columns) ==
    Row([c \in columns |->
            IF c = "public_holiday_flag" /\ row[c] = NaT THEN 0
            ELSE IF c = "public_holiday" /\ row[c] = NaN THEN "No public holiday"
            ELSE row[c]])

fillna(df) ==
    DataFrame(df.columns, [i \in DOMAIN df.rows |-> fillna_row(df.rows[i], df.columns)])

with_public_holidays(df, holidays) == fillna(merge_left(df, holidays, "day"))

without(rows, i) == [j \in 1..(Len(rows) - 1) |-> IF j < i THEN rows[j] ELSE rows[j + 1]]

\* sort_values(by=...): every order the rows can come out in, rows with
\* equal keys in any order (the default sort is not stable)
RECURSIVE sort_values(_, _)
sort_values(rows, by) ==
    IF rows = <<>> THEN {<<>>}
    ELSE UNION {{<<rows[i]>> \o rest : rest \in sort_values(without(rows, i), by)} :
                   i \in {i \in DOMAIN rows :
                             \A j \in DOMAIN rows : rows[i][by] <= rows[j][by]}}

\* direction="backward": the last row of the sorted right table whose
\* start_date is not after the date
last_started(periods, date) ==
    IF \E i \in DOMAIN periods : periods[i].start_date <= date
    THEN <<periods[SetMax({i \in DOMAIN periods : periods[i].start_date <= date})]>>
    ELSE <<>>

\* pd.merge_asof(left, right, left_on="date", right_on="start_date"): no
\* column is shared as a key, so every common column is suffixed
asof_columns(left_columns, right_columns) ==
    merged_left(left_columns, left_columns \cap right_columns)
       \cup merged_right(right_columns, left_columns \cap right_columns, "")

planned_asof(left, right, plan) ==
    DataFrame(DOMAIN plan,
              [i \in DOMAIN left.rows |->
                  joined_row(left.rows[i], last_started(right.rows, left.rows[i].date), plan)])

merge_asof(left, right) ==
    planned_asof(left, right,
                 merge_plan(left.columns, right.columns, left.columns \cap right.columns, ""))

\* the columns the statements after merge_asof read
events_raises(columns) == ~({"start_date", "end_date", "vacation_flag"} \subseteq columns)

\* the mutant of in_period: the end date itself is outside the period
in_period_open(date, start_date, end_date) ==
    /\ start_date # NaT
    /\ end_date # NaT
    /\ date >= start_date
    /\ date < end_date

\* mask: both bounds inclusive; a comparison with NaT is False
in_period(date, start_date, end_date) ==
    /\ start_date # NaT
    /\ end_date # NaT
    /\ date >= start_date
    /\ date <= end_date

vacation_flag_of(row) ==
    IF in_period(row.date, row.start_date, row.end_date) /\ row.vacation_flag # NaT
    THEN 1 ELSE 0

flagged_row(row, columns) ==
    Row([c \in columns \cup {"vacation"} |->
            IF c = "vacation_flag" THEN vacation_flag_of(row)
            ELSE IF c = "vacation" /\ vacation_flag_of(row) = 0 THEN "No vacation"
            ELSE row[c]])

with_vacation_flag(df) ==
    DataFrame(df.columns \cup {"vacation"},
              [i \in DOMAIN df.rows |-> flagged_row(df.rows[i], df.columns)])

\* ---------------------------------------------------------------- get_enriched_data
\* Each step returns the loader as the call leaves it: the table last
\* assigned to __enriched_data, the exception if one ended the call, and the
\* row counts of the stages that completed.  An exception of
\* __enrich_special_events depends on the column names alone, so it is
\* decided before the rows are sorted and joined.
finish_events(d2, d3, stages) ==
    Ok(d3, Append(stages, StageRows("__enrich_special_events", d2, d3)))

enrich_special_events(d2, with_holidays, by_date, by_start_date, vacation_columns, stages) ==
    finish_events(d2,
                  with_vacation_flag(merge_asof(DataFrame(with_holidays.columns, by_date),
                                                DataFrame(vacation_columns, by_start_date))),
                  stages)

sorted_events(d2, with_holidays, sorted_vacations, vacation_columns, stages) ==
    {enrich_special_events(d2, with_holidays, by_date, by_start_date, vacation_columns, stages) :
        by_date \in sort_values(with_holidays.rows, "date"),
        by_start_date \in sorted_vacations}

holidays_done(d2, with_holidays, vacs, stages) ==
    IF merge_collides(with_holidays.columns, vacs.columns, "")
    THEN {Raised("MergeError", d2, stages)}
    ELSE IF events_raises(asof_columns(with_holidays.columns, vacs.columns))
    THEN {Raised("KeyError", d2, stages)}
    ELSE sorted_events(d2, with_holidays, sort_values(vacs.rows, "start_date"),
                       vacs.columns, stages)

special_events(d2, holidays, vacs, stages) ==
    IF merge_collides(d2.columns, holidays.columns, "day")
    THEN {Raised("MergeError", d2, stages)}
    ELSE holidays_done(d2, with_public_holidays(d2, holidays), vacs, stages)

sensors_done(d1, d2, holidays, vacs, stages) ==
    special_events(d2, holidays, vacs, Append(stages, StageRows("__enrich_sensors", d1, d2)))

sensors_stage(d1, sensors, holidays, vacs, stages) ==
    IF sensors_raises(sensors) THEN {Raised("KeyError", d1, stages)}
    ELSE IF merge_collides(d1.columns, sensors_columns(sensors).columns, "instance_id")
    THEN {Raised("MergeError", d1, stages)}
    ELSE sensors_done(d1, enrich_sensors(d1, sensors), holidays, vacs, stages)

dates_done(d0, d1, sensors, holidays, vacs) ==
    sensors_stage(d1, sensors, holidays, vacs, <<StageRows("__enrich_dates", d0, d1)>>)

get_enriched_data(d0, sensors, holidays, vacs) ==
    dates_done(d0, enrich_dates(d0), sensors, holidays, vacs)

\* ---------------------------------------------------------------- the loader's inputs
Instances == 1..MaxInstance

RawColumns == {"instance_id", "date", "uptime"}
RawRows == {[instance_id |-> i, date |-> d, uptime |-> MaxUptime] : i \in Instances, d \in Dates}

RawKey(row) == row.instance_id * (MaxDate + 1) + row.date

\* the files of the directory, concatenated, without duplicate rows: one
\* sensor after the other, each in the order of its dates
RawTables ==
    {DataFrame(RawColumns, rows) :
        rows \in {r \in UNION {[1..n -> RawRows] : n \in 1..MaxRaw} :
                     \A i, j \in DOMAIN r : i < j => RawKey(r[i]) < RawKey(r[j])}}

\* get_telraam_information(): the empty DataFrame when a file is missing,
\* else one row per sensor of sensors.yaml; two sensors may carry the same
\* instance_id.  The rows are listed by instance_id and segment.
SensorColumns == {"instance_id", "segment_fullname"}
SensorRows ==
    {[instance_id |-> i, segment_fullname |-> s] : i \in Instances, s \in 1..MaxSensorSeg}
SensorKey(row) == row.instance_id * (MaxSensorSeg + 1) + row.segment_fullname

SensorTables ==
    {DataFrame({}, <<>>)}
    \cup {DataFrame(SensorColumns, rows) :
             rows \in {r \in UNION {[1..n -> SensorRows] : n \in 1..MaxSensorRows} :
                          \A i, j \in DOMAIN r : i < j => SensorKey(r[i]) < SensorKey(r[j])}}

\* get_public_holidays(): one row per key of the dictionary, so one per day
HolidayColumns == {"day", "public_holiday", "public_holiday_flag"}
holiday_row(day) ==
    [day |-> day, public_holiday |-> "H" \o ToString(day), public_holiday_flag |-> 1]

HolidayTables ==
    {DataFrame(HolidayColumns,
               [i \in 1..Cardinality(days) |-> holiday_row(SortedInts(days)[i])]) :
        days \in SUBSET Days}

\* get_vacations(): description AS vacation, start_date, end_date,
\* 1 AS vacation_flag; periods may overlap and may start together
VacationColumns == {"vacation", "start_date", "end_date", "vacation_flag"}
Periods == {p \in Dates \X Dates : p[1] <= p[2]}
vacation_row(i, period) ==
    [vacation |-> "V" \o ToString(i), start_date |-> period[1], end_date |-> period[2],
     vacation_flag |-> 1]

VacationTables ==
    {DataFrame(VacationColumns, [i \in DOMAIN ps |-> vacation_row(i, ps[i])]) :
        ps \in {q \in UNION {[1..n -> Periods] : n \in 1..MaxVacations} :
                   \A i, j \in DOMAIN q : i < j => ~TupleLess(q[j], q[i])}}

MapperIdle ==
    /\ enriched_data = <<>>
    /\ call = NoCall
    /\ ret = <<>>
    /\ outcome = "ok"

\* EnrichedDataLoader.__init__: __enriched_data is the raw data
InitLoader ==
    /\ MapperIdle
    /\ raw_data \in RawTables
    /\ self_enriched_data = raw_data
    /\ sensors_config \in SensorTables
    /\ public_holidays \in HolidayTables
    /\ vacations \in VacationTables
    /\ calls = 0
    /\ loader_outcome = "ok"
    /\ stage_rows = <<>>

Leaves(result) ==
    /\ self_enriched_data' = result.df
    /\ loader_outcome' = result.error
    /\ stage_rows' = result.stages

GetEnrichedData ==
    /\ calls < MaxCalls
    /\ calls' = calls + 1
    /\ \E result \in get_enriched_data(self_enriched_data, sensors_config,
                                       public_holidays, vacations) : Leaves(result)
    /\ UNCHANGED <<raw_data, sensors_config, public_holidays, vacations, mapper_vars>>

NextLoader == GetEnrichedData

SpecLoader == InitLoader /\ [][NextLoader]_vars

\* ================================================================ properties of the mapper
\* What the properties are stated in: the uptime the input holds for a
\* segment at an hour and on a day, read off the enriched rows directly.

NamedSegments(ed) == {r.segment_fullname : r \in Range(ed)} \ {NoSegment}

CellUptime(ed, s, h) ==
    LET U == {r.uptime : r \in {q \in Range(ed) : q.segment_fullname = s /\ q.date = h}}
    IN  IF U = {} THEN 0 ELSE SetMax(U)

DayUptime(ed, s, d) ==
    SumSeq([i \in 1..(MaxDate + 1) |->
               IF DayOf(i - 1) = d THEN CellUptime(ed, s, i - 1) ELSE 0])

\* the days on which every member of S is above the threshold
CommonDays(ed, S, t) == {d \in Days : \A s \in S : DayUptime(ed, s, d) > t}

\* the subsets of two or more segments that share at least one such day
ScoredSubsets(ed, t) ==
    {S \in SUBSET NamedSegments(ed) : Cardinality(S) >= 2 /\ CommonDays(ed, S, t) # {}}

Called(op) == call.op = op /\ outcome = "ok"

\* C2: the hour-level grid holds exactly one cell for every (segment, hour)
\* with the hour between the earliest and the latest date of the input, its
\* uptime the maximum the input holds for the pair, 0 when it holds none.
C2_GridCompleteness ==
    (Called("availability") /\ ~call.level_day) =>
        LET lo == SetMin({r.date : r \in Range(enriched_data)})
            hi == SetMax({r.date : r \in Range(enriched_data)})
        IN  \A s \in NamedSegments(enriched_data), h \in lo..hi :
                /\ Cardinality({i \in DOMAIN ret : ret[i].segment_fullname = s
                                                   /\ ret[i].date = h}) = 1
                /\ \A i \in DOMAIN ret :
                       (ret[i].segment_fullname = s /\ ret[i].date = h)
                           => ret[i].uptime = CellUptime(enriched_data, s, h)

\* the same with the range taken over the rows that have a segment_fullname,
\* and nothing else in the grid
GridCompleteOverNamedRows ==
    (Called("availability") /\ ~call.level_day) =>
        LET named == {r \in Range(enriched_data) : r.segment_fullname # NoSegment}
            lo == SetMin({r.date : r \in named})
            hi == SetMax({r.date : r \in named})
        IN  /\ \A s \in NamedSegments(enriched_data), h \in lo..hi :
                   /\ Cardinality({i \in DOMAIN ret : ret[i].segment_fullname = s
                                                      /\ ret[i].date = h}) = 1
                   /\ \A i \in DOMAIN ret :
                          (ret[i].segment_fullname = s /\ ret[i].date = h)
                              => ret[i].uptime = CellUptime(enriched_data, s, h)
            /\ Len(ret) = Cardinality(NamedSegments(enriched_data)) * (hi - lo + 1)

\* C4: counter_combinations has one row for every subset of two or more
\* segments available together on at least one day (every size, not only
\* pairs) and no other row; available_days is the number of days on which
\* every member is above the threshold, combination_length the subset's size.
C4_CombinationCompleteness ==
    Called("counter_combinations") =>
        LET t == call.uptime_threshold
            scored == ScoredSubsets(enriched_data, t)
        IN  /\ \A S \in scored :
                   Cardinality({i \in DOMAIN ret : Range(ret[i].combinations) = S}) = 1
            /\ \A i \in DOMAIN ret :
                   LET S == Range(ret[i].combinations)
                   IN  /\ S \in scored
                       /\ ret[i].available_days = Cardinality(CommonDays(enriched_data, S, t))
                       /\ ret[i].combination_length = Cardinality(S)
                       /\ Len(ret[i].combinations) = Cardinality(S)

C4_Witness ==
    /\ Called("counter_combinations")
    /\ \E i, j \in DOMAIN ret :
           /\ ret[i].combination_length = 3
           /\ ret[j].combination_length = 2
           /\ ret[j].available_days = 2
           /\ ret[i].available_days = 1

\* C5: best_combinations has exactly one row per combination_length present
\* in counter_combinations; it is a row of counter_combinations holding the
\* largest available_days of its length, and the first such row there.
C5_BestSelection ==
    Called("best_combinations") =>
        LET counter == counter_combinations(enriched_data, call.uptime_threshold,
                                           sorted_instances(enriched_data))
            lengths == {counter[i].combination_length : i \in DOMAIN counter}
        IN  /\ Len(ret) = Cardinality(lengths)
            /\ \A n \in lengths :
                   \E k \in DOMAIN ret :
                       /\ ret[k].combination_length = n
                       /\ \E i \in DOMAIN counter :
                              /\ counter[i] = ret[k]
                              /\ \A j \in DOMAIN counter :
                                     counter[j].combination_length = n =>
                                         /\ counter[j].available_days <= counter[i].available_days
                                         /\ (counter[j].available_days = counter[i].available_days
                                                => i <= j)

C5_Witness ==
    /\ Called("best_combinations")
    /\ LET counter == counter_combinations(enriched_data, call.uptime_threshold,
                                           sorted_instances(enriched_data))
       IN  \E i, j \in DOMAIN counter :
               /\ i < j
               /\ counter[i].combination_length = 2
               /\ counter[j].combination_length = 2
               /\ counter[i].available_days = counter[j].available_days
               /\ \E b \in DOMAIN ret : ret[b] = counter[i]

\* C6: asked for a length no combination has, best_combinations_details ends
\* in a CombinationNotFound outcome, a normal "no result", never in a crash.
C6_CombinationNotFound ==
    (/\ call.op = "best_combinations_details"
     /\ \A S \in ScoredSubsets(enriched_data, call.uptime_threshold) :
            Cardinality(S) # call.combination_length)
        => outcome = "CombinationNotFound"

\* C7: when a combination of the requested length exists, the details are
\* exactly the enriched rows of the winning combination's members on the
\* days that combination qualified, in the input's order.
C7_DetailsFilter ==
    Called("best_combinations_details") =>
        LET t == call.uptime_threshold
            best == best_combinations(enriched_data, t, sorted_instances(enriched_data))
        IN  \E k \in DOMAIN best :
                LET S == Range(best[k].combinations)
                    D == CommonDays(enriched_data, S, t)
                IN  /\ best[k].combination_length = call.combination_length
                    /\ ret = SelectSeq(enriched_data,
                                 LAMBDA r : r.segment_fullname \in S /\ r.day \in D)

C7_Witness ==
    /\ Called("best_combinations_details")
    /\ ret # <<>>
    /\ \E r \in Range(enriched_data), q \in Range(ret) :
           /\ r.segment_fullname = q.segment_fullname
           /\ r \notin Range(ret)
    /\ \E r \in Range(enriched_data), q \in Range(ret) :
           /\ r.segment_fullname \notin {NoSegment} \cup {x.segment_fullname : x \in Range(ret)}
           /\ r.day = q.day

\* C8: a segment is available on a day exactly when its day-level uptime (the
\* sum of the day's hourly uptimes) is strictly above the threshold: for
\* every pair of segments, the days counted are the days both are above it.
C8_StrictThreshold ==
    Called("counter_combinations") =>
        LET t == call.uptime_threshold
            counted(a, b) ==
                LET rows == {i \in DOMAIN ret : ret[i].combinations = <<a, b>>}
                IN  IF rows = {} THEN 0 ELSE ret[CHOOSE i \in rows : TRUE].available_days
        IN  \A a, b \in Segments :
                a < b => counted(a, b)
                           = Cardinality({d \in Days :
                                 /\ DayUptime(enriched_data, a, d) > t
                                 /\ DayUptime(enriched_data, b, d) > t})

C8_Witness ==
    /\ Called("counter_combinations")
    /\ call.uptime_threshold > 0
    /\ \E a, b, c \in Segments, d \in Days :
           /\ DayUptime(enriched_data, a, d) > call.uptime_threshold
           /\ DayUptime(enriched_data, b, d) > call.uptime_threshold
           /\ DayUptime(enriched_data, c, d) = call.uptime_threshold
           /\ \E i \in DOMAIN ret : Range(ret[i].combinations) = {a, b}
           /\ \A i \in DOMAIN ret : c \notin Range(ret[i].combinations)

\* C9: when no day has two qualifying segments (one distinct segment, for
\* one), counter_combinations and best_combinations return an empty table
\* and raise no error.
C9_EmptyNotError ==
    (/\ call.op \in {"counter_combinations", "best_combinations"}
     /\ ScoredSubsets(enriched_data, call.uptime_threshold) = {})
        => (outcome = "ok" /\ ret = <<>>)

\* the same for the tables that hold at least one row with a segment_fullname
EmptyNotErrorOnNamedRows ==
    (/\ call.op \in {"counter_combinations", "best_combinations"}
     /\ NamedSegments(enriched_data) # {}
     /\ ScoredSubsets(enriched_data, call.uptime_threshold) = {})
        => (outcome = "ok" /\ ret = <<>>)

\* ================================================================ properties of the loader
Completed == calls >= 1 /\ loader_outcome = "ok"

\* C1: each enrichment stage returns as many rows as it received, also when
\* the sensors table has several rows for one instance_id.
C1_RowsPreserved ==
    \A i \in DOMAIN stage_rows : stage_rows[i].rows_out = stage_rows[i].rows_in

\* the periods that have started at a date, and the ones among them that
\* started last
Started(date) == {p \in Range(vacations.rows) : p.start_date <= date}
LatestStarted(date) ==
    {p \in Started(date) : \A q \in Started(date) : q.start_date <= p.start_date}

VacationOf(row, p) ==
    IF p.end_date >= row.date
    THEN row.vacation_flag = 1 /\ row.vacation = p.vacation
    ELSE row.vacation_flag = 0 /\ row.vacation = "No vacation"

\* C3: a record is flagged as vacation, with the period's label, exactly
\* when the period with the latest start_date at or before the record's
\* timestamp ends at or after it; every other record, a record before every
\* start included, has flag 0 and the label "No vacation".
C3_VacationJoin ==
    Completed =>
        \A row \in Range(self_enriched_data.rows) :
            IF Started(row.date) = {}
            THEN row.vacation_flag = 0 /\ row.vacation = "No vacation"
            ELSE \E p \in LatestStarted(row.date) : VacationOf(row, p)

\* a record on the last hour of the period that started last is flagged,
\* and a record after that period's end is not, though an earlier period
\* still runs
C3_Witness ==
    /\ Completed
    /\ \E row \in Range(self_enriched_data.rows) :
          /\ row.vacation_flag = 1
          /\ \E p \in LatestStarted(row.date) :
                p.end_date = row.date /\ p.vacation = row.vacation
    /\ \E row \in Range(self_enriched_data.rows) :
          /\ row.vacation_flag = 0
          /\ row.vacation = "No vacation"
          /\ \E p \in Started(row.date) : p.end_date >= row.date

\* C10: a second get_enriched_data() on the same loader returns the table
\* the first one returned.
C10_Idempotent ==
    [][Completed => /\ loader_outcome' = "ok"
                    /\ self_enriched_data' = self_enriched_data]_vars

\* the public holidays that fall on a day
HolidaysOn(day) == {h \in Range(public_holidays.rows) : h.day = day}

\* C11: a record whose day is a public holiday's day has public_holiday_flag
\* 1 and that holiday's label; a record whose day is no public holiday has
\* public_holiday_flag 0 and the label "No public holiday".
C11_HolidayJoin ==
    Completed =>
        \A row \in Range(self_enriched_data.rows) :
            IF HolidaysOn(row.day) = {}
            THEN row.public_holiday_flag = 0 /\ row.public_holiday = "No public holiday"
            ELSE /\ row.public_holiday_flag = 1
                 /\ \E h \in HolidaysOn(row.day) : row.public_holiday = h.public_holiday

\* one record on a public holiday and one on an ordinary day
C11_Witness ==
    /\ Completed
    /\ \E row \in Range(self_enriched_data.rows) :
          HolidaysOn(row.day) # {} /\ row.public_holiday_flag = 1
    /\ \E row \in Range(self_enriched_data.rows) :
          HolidaysOn(row.day) = {} /\ row.public_holiday = "No public holiday"

\* get_telraam_information() found no sensors or no segments file
ConfigurationMissing == sensors_config.columns = {}

\* C12: when the sensors or the segments table is absent, the enrichment run
\* that receives the empty mapping ends in the missing-configuration
\* outcome, not in an exception.
C12_MissingConfigurationReported ==
    (calls >= 1 /\ ConfigurationMissing) => loader_outcome = "MissingConfiguration"

\* ================================================================ more properties of the mapper
\* the hours from the earliest to the latest timestamp of a set of rows
HourRange(rows) ==
    IF rows = {} THEN {}
    ELSE SetMin({r.date : r \in rows})..SetMax({r.date : r \in rows})

\* C13: the hours of the grid run from the earliest to the latest timestamp
\* of the whole enriched table, the rows without a segment_fullname
\* included: every named segment has a cell for every hour of that range.
C13_RangeOverFullDataset ==
    (Called("availability") /\ ~call.level_day) =>
        \A s \in NamedSegments(enriched_data), h \in HourRange(Range(enriched_data)) :
            \E i \in DOMAIN ret : ret[i].segment_fullname = s /\ ret[i].date = h

\* ================================================================ create_all_dates on its own
\* The specification SpecDates applies create_all_dates to one set of
\* arguments: a list of distinct instances, the name of their column, and
\* the two ends of the period.
InstanceLists == UNION {orders_of(S) : S \in SUBSET Segments}
InstanceNames == {"instance", "instance_id", "segment_fullname"}

DatesArguments ==
    [op : {"none"}, instances : InstanceLists, instances_name : InstanceNames,
     start_date : Dates, end_date : Dates]

InitDates ==
    /\ call \in DatesArguments
    /\ ret = <<>>
    /\ outcome = "ok"
    /\ enriched_data = <<>>
    /\ LoaderIdle

CreateAllDates ==
    /\ call.op = "none"
    /\ call' = [call EXCEPT !.op = "create_all_dates"]
    /\ IF create_all_dates_raises(call.instances, call.start_date, call.end_date)
       THEN outcome' = "AttributeError" /\ ret' = <<>>
       ELSE /\ outcome' = "ok"
            /\ ret' = create_all_dates(call.instances, call.instances_name,
                                       call.start_date, call.end_date)
    /\ UNCHANGED <<enriched_data, loader_vars>>

NextDates == CreateAllDates

SpecDates == InitDates /\ [][NextDates]_vars

\* the whole hours from start to end, both ends included
PeriodHours == call.start_date..call.end_date

\* C14: create_all_dates returns |instances| x |hours| rows, every
\* (instance, hour) pair exactly once, in a table whose columns are exactly
\* date, instance_id and hour.
C14_CreateAllDates ==
    call.op = "create_all_dates" =>
        /\ outcome = "ok"
        /\ ret.columns = {"date", "instance_id", "hour"}
        /\ Len(ret.rows) = Len(call.instances) * Cardinality(PeriodHours)
        /\ \A x \in Range(call.instances), h \in PeriodHours :
               Cardinality({i \in DOMAIN ret.rows :
                               ret.rows[i].instance_id = x /\ ret.rows[i].date = h}) = 1

\* the same with the instances in the column that instances_name names,
\* when there is at least one row to return
CreateAllDatesNamedColumn ==
    (call.op = "create_all_dates" /\ outcome = "ok") =>
        /\ ret.columns = {"date", call.instances_name, "hour"}
        /\ Len(ret.rows) = Len(call.instances) * Cardinality(PeriodHours)
        /\ \A x \in Range(call.instances), h \in PeriodHours :
               Cardinality({i \in DOMAIN ret.rows :
                               /\ ret.rows[i][call.instances_name] = x
                               /\ ret.rows[i].date = h
                               /\ ret.rows[i].hour = HourOf(h)}) = 1

\* ================================================================ divide_into_subperiods
\* A time string "YYYY-MM-DD HH:MM:SSZ" is the pair of its day and its hour;
\* a datetime is the number of hours since the origin.
TimeStrings == [day : 0..MaxDay, hour : 0..(HoursPerDay - 1)]

\* datetime.strptime(text, "%Y-%m-%d %H:%M:%SZ")
strptime(text) == text.day * HoursPerDay + text.hour

\* date.strftime("%Y-%m-%d %H:%M:%SZ")
strftime(date) == [day |-> DayOf(date), hour |-> HourOf(date)]

\* timedelta(days=subperiod), in hours
timedelta_days(subperiod) == subperiod * HoursPerDay

end_of_subperiod(begin_subperiod, end, subperiod) ==
    IF begin_subperiod + timedelta_days(subperiod) < end
    THEN begin_subperiod + timedelta_days(subperiod)
    ELSE end

\* the while loop: one [begin, end] pair per turn, the next turn beginning
\* one hour after the end of this one
RECURSIVE list_subperiods(_, _, _)
list_subperiods(begin_subperiod, end, subperiod) ==
    IF begin_subperiod < end
    THEN << <<strftime(begin_subperiod),
              strftime(end_of_subperiod(begin_subperiod, end, subperiod))>> >>
         \o list_subperiods(end_of_subperiod(begin_subperiod, end, subperiod) + 1,
                            end, subperiod)
    ELSE <<>>

divide_into_subperiods(time_start, time_end, subperiod) ==
    list_subperiods(strptime(time_start), strptime(time_end), subperiod)

PeriodsArguments ==
    [op : {"none"}, time_start : TimeStrings, time_end : TimeStrings,
     subperiod : 1..MaxSubperiod]

InitPeriods ==
    /\ call \in PeriodsArguments
    /\ ret = <<>>
    /\ outcome = "ok"
    /\ enriched_data = <<>>
    /\ LoaderIdle

DivideIntoSubperiods ==
    /\ call.op = "none"
    /\ call' = [call EXCEPT !.op = "divide_into_subperiods"]
    /\ ret' = divide_into_subperiods(call.time_start, call.time_end, call.subperiod)
    /\ UNCHANGED <<enriched_data, outcome, loader_vars>>

NextPeriods == DivideIntoSubperiods

SpecPeriods == InitPeriods /\ [][NextPeriods]_vars

Divided ==
    /\ call.op = "divide_into_subperiods"
    /\ strptime(call.time_start) < strptime(call.time_end)

Chained ==
    /\ ret # <<>>
    /\ ret[1][1] = call.time_start
    /\ \A i \in DOMAIN ret :
          /\ strptime(ret[i][1]) <= strptime(ret[i][2])
          /\ strptime(ret[i][2]) - strptime(ret[i][1]) <= call.subperiod * HoursPerDay
    /\ \A i \in 1..(Len(ret) - 1) : strptime(ret[i + 1][1]) = strptime(ret[i][2]) + 1

\* C15: for time_start < time_end and a subperiod of one day or more, the
\* result is a non-empty list of periods; the first starts at time_start,
\* the last ends at time_end, none spans more than subperiod days, and each
\* starts one hour after the end of the one before.
C15_Subperiods ==
    Divided => (Chained /\ ret[Len(ret)][2] = call.time_end)

\* the same, with the last period ending at time_end or one hour before it
SubperiodsUpToLastHour ==
    Divided => /\ Chained
               /\ strptime(ret[Len(ret)][2]) \in
                     {strptime(call.time_end) - 1, strptime(call.time_end)}

\* ================================================================ properties of the combination tables
Members(row) == Range(row.combinations)

\* every subset of two or more members of a row has its own row, with at
\* least as many days
SubsetsPresent(table) ==
    \A i \in DOMAIN table :
        \A T \in SUBSET Members(table[i]) :
            Cardinality(T) >= 2 =>
                \E j \in DOMAIN table :
                    /\ Members(table[j]) = T
                    /\ table[j].available_days >= table[i].available_days

\* the lengths are 2..K and the days do not grow with the length
LengthsContiguous(table) ==
    /\ {table[i].combination_length : i \in DOMAIN table} = 2..(Len(table) + 1)
    /\ \A i, j \in DOMAIN table :
          table[i].combination_length <= table[j].combination_length
              => table[i].available_days >= table[j].available_days

\* C16: in a counter_combinations result every subset (of size 2 or more)
\* of a combination is a row too, with at least as many available days; so
\* best_combinations holds the lengths 2..K, and its available days never
\* increase with the length.
C16_SubsetMonotone ==
    /\ Called("counter_combinations") => SubsetsPresent(ret)
    /\ Called("best_combinations") => LengthsContiguous(ret)

\* a combination of three with a pair inside it that has more days
C16_Witness ==
    /\ Called("counter_combinations")
    /\ \E i, j \in DOMAIN ret :
          /\ ret[i].combination_length = 3
          /\ ret[j].combination_length = 2
          /\ Members(ret[j]) \subseteq Members(ret[i])
          /\ ret[j].available_days > ret[i].available_days

\* the members of a key are distinct and ascend by segment_fullname
Canonical(key) == \A i, j \in DOMAIN key : i < j => key[i] < key[j]

\* C17: every combination key lists its members in ascending
\* segment_fullname order, whatever the order of the enriched rows (and of
\* the set of segments inside availability()); so no two rows of
\* counter_combinations hold the same set of members.
C17_CanonicalKeys ==
    Called("counter_combinations") =>
        /\ \A i \in DOMAIN ret : Canonical(ret[i].combinations)
        /\ \A i, j \in DOMAIN ret : Members(ret[i]) = Members(ret[j]) => i = j

\* the enriched rows hold two segments in descending order, and the two
\* share a key
C17_Witness ==
    /\ Called("counter_combinations")
    /\ \E i, j \in DOMAIN enriched_data :
          /\ i < j
          /\ enriched_data[i].segment_fullname > enriched_data[j].segment_fullname
          /\ enriched_data[j].segment_fullname # NoSegment
          /\ \E k \in DOMAIN ret :
                {enriched_data[i].segment_fullname, enriched_data[j].segment_fullname}
                    \subseteq Members(ret[k])
====
